---- MODULE Spec2Model ----
(***************************************************************************)
(* Diabetes prediction service: the FastAPI application (api.py) and the   *)
(* Streamlit form (dl_app.py).                                             *)
(*                                                                         *)
(* Numbers are fixed point.  A field value v of the program is the integer *)
(* 10000 * v (so bmi 18.2 is 182000 and the pedigree bound 0.078 is 780),  *)
(* a probability p is the integer 100 * p (so 0.5 is 50 and 1.0 is One).   *)
(***************************************************************************)
EXTENDS Integers, Sequences, FiniteSets, TLC

VARIABLES
    env,        \* process environment: PORT and ENVIRONMENT
    disk,       \* content of 'deep_learning_model.keras', or NoFile
    pc,         \* where the API process is
    error,      \* exception that ended the API process, "none" while it lives
    mainModel,  \* global `model` of api.py executed as __main__
    model,      \* global `model` of the imported module api: the Model Handle
    loads,      \* per module, how many times its `model` was bound
    config,     \* arguments api.py gave to uvicorn.run
    reqs,       \* connection slot -> request in flight
    ui          \* last run of the dl_app.py script

vars == <<env, disk, pc, error, mainModel, model, loads, config, reqs, ui>>

----------------------------------------------------------------------------
(* Bounds of the model *)

NReq == 2          \* concurrent connections of SpecConc
MaxPrefix == 2     \* records of a batch that vary; the rest is padding
Step == 1          \* distance of an out-of-bounds value from its bound

(* Program constants *)

MaxPatients == 100 \* api.py: len(patients) > 100
One == 100         \* api.py: the 1 of `1 - prediction_proba`
DefaultPort == 8000

----------------------------------------------------------------------------
(* PredictionInput *)

Fields ==
    {"pregnancies", "glucose", "blood_pressure", "skin_thickness", "insulin",
     "bmi", "diabetes_pedigree_function", "age"}

ge ==
    [pregnancies |-> 0, glucose |-> 440000, blood_pressure |-> 240000,
     skin_thickness |-> 70000, insulin |-> 140000, bmi |-> 182000,
     diabetes_pedigree_function |-> 780, age |-> 210000]

le ==
    [pregnancies |-> 170000, glucose |-> 1990000, blood_pressure |-> 1220000,
     skin_thickness |-> 990000, insulin |-> 8460000, bmi |-> 671000,
     diabetes_pedigree_function |-> 24200, age |-> 810000]

Example ==
    [pregnancies |-> 30000, glucose |-> 1170000, blood_pressure |-> 720000,
     skin_thickness |-> 290000, insulin |-> 1250000, bmi |-> 323000,
     diabetes_pedigree_function |-> 3725, age |-> 290000]

\* FieldErrors with the lower bounds exclusive (gt for ge)
FieldErrors_gt(rec) ==
    {f \in Fields : ~(rec[f] > ge[f] /\ rec[f] <= le[f])}

\* Field(..., ge=, le=): the fields of one record that violate a constraint
FieldErrors(rec) ==
    {f \in Fields : ~(rec[f] >= ge[f] /\ rec[f] <= le[f])}

\* request body validation of `input_data: PredictionInput`
ValidateOne(rec) ==
    {[row |-> -1, field |-> f] : f \in FieldErrors(rec)}

\* request body validation of `patients: list[PredictionInput]`
ValidateList(patients) ==
    UNION {{[row |-> i - 1, field |-> f] : f \in FieldErrors(patients[i])} :
           i \in 1..Len(patients)}

----------------------------------------------------------------------------
(* The model artifact.  Its content is opaque to the program: an artifact  *)
(* is represented by what model.predict does with a row.                   *)

NoFile == [bias |-> 0, fault |-> "absent"]
NoModel == [bias |-> 0, fault |-> "unloaded"]

Artifacts ==
    [bias : {49, 50, 51}, fault : {"none"}]
        \cup [bias : {50}, fault : {"ValueError", "RuntimeError"}]

\* one row of the DataFrame built from a record
Row(rec) ==
    [Pregnancies |-> rec.pregnancies, Glucose |-> rec.glucose,
     BloodPressure |-> rec.blood_pressure, SkinThickness |-> rec.skin_thickness,
     Insulin |-> rec.insulin, BMI |-> rec.bmi,
     DiabetesPedigreeFunction |-> rec.diabetes_pedigree_function,
     Age |-> rec.age]

Level(v, lo, hi) == IF v <= lo THEN -1 ELSE IF v >= hi THEN 1 ELSE 0

Score(row) ==
      5 * Level(row.Pregnancies, ge.pregnancies, le.pregnancies)
    + 10 * Level(row.Glucose, ge.glucose, le.glucose)
    + 15 * Level(row.BloodPressure, ge.blood_pressure, le.blood_pressure)
    + 20 * Level(row.SkinThickness, ge.skin_thickness, le.skin_thickness)
    + 25 * Level(row.Insulin, ge.insulin, le.insulin)
    + 30 * Level(row.BMI, ge.bmi, le.bmi)
    + 35 * Level(row.DiabetesPedigreeFunction, ge.diabetes_pedigree_function,
                 le.diabetes_pedigree_function)
    + 40 * Level(row.Age, ge.age, le.age)

Clamp(x) == IF x < 0 THEN 0 ELSE IF x > One THEN One ELSE x

\* the probability the artifact m gives a row
Proba(m, row) == Clamp(m.bias + Score(row))

\* str(e) of an exception raised by the inference backend
ExcMessage(exc) ==
    IF exc = "ValueError" THEN "incompatible input shape" ELSE "backend failure"

\* model.predict(input_df): one probability per row, in row order, or raises
Predict(m, df) ==
    IF m.fault # "none"
        THEN [raised |-> m.fault, proba |-> <<>>]
        ELSE [raised |-> "none",
              proba |-> [i \in 1..Len(df) |-> Proba(m, df[i])]]

----------------------------------------------------------------------------
(* Deriving a result from a probability *)

Max(a, b) == IF a >= b THEN a ELSE b

\* PredictionOutput with the threshold itself labelled 1 (>= for >)
PredictionOutput_ge(prediction_proba) ==
    LET prediction == IF prediction_proba >= 50 THEN 1 ELSE 0
        confidence_prob == Max(prediction_proba, One - prediction_proba)
        confidence == IF confidence_prob >= 80 THEN "High"
                      ELSE IF confidence_prob >= 60 THEN "Medium"
                      ELSE "Low"
    IN  [prediction |-> prediction, probability |-> prediction_proba,
         confidence |-> confidence]

\* predict_diabetes: prediction, confidence and the PredictionOutput
PredictionOutput(prediction_proba) ==
    LET prediction == IF prediction_proba > 50 THEN 1 ELSE 0
        confidence_prob == Max(prediction_proba, One - prediction_proba)
        confidence == IF confidence_prob >= 80 THEN "High"
                      ELSE IF confidence_prob >= 60 THEN "Medium"
                      ELSE "Low"
    IN  [prediction |-> prediction, probability |-> prediction_proba,
         confidence |-> confidence]

\* BatchResult with the High tier exclusive at its boundary (> for >=)
BatchResult_gt(i, proba) ==
    LET prediction == IF proba > 50 THEN 1 ELSE 0
        confidence_prob == Max(proba, One - proba)
        confidence == IF confidence_prob > 80 THEN "High"
                      ELSE IF confidence_prob >= 60 THEN "Medium"
                      ELSE "Low"
    IN  [patient_id |-> i + 1, prediction |-> prediction,
         probability |-> proba, confidence |-> confidence]

\* BatchResult with the enumerate index itself as the identifier
BatchResult_zero(i, proba) ==
    LET prediction == IF proba > 50 THEN 1 ELSE 0
        confidence_prob == Max(proba, One - proba)
        confidence == IF confidence_prob >= 80 THEN "High"
                      ELSE IF confidence_prob >= 60 THEN "Medium"
                      ELSE "Low"
    IN  [patient_id |-> i, prediction |-> prediction,
         probability |-> proba, confidence |-> confidence]

\* predict_batch: the body of `for i, proba in enumerate(predictions_proba)`
BatchResult(i, proba) ==
    LET prediction == IF proba > 50 THEN 1 ELSE 0
        confidence_prob == Max(proba, One - proba)
        confidence == IF confidence_prob >= 80 THEN "High"
                      ELSE IF confidence_prob >= 60 THEN "Medium"
                      ELSE "Low"
    IN  [patient_id |-> i + 1, prediction |-> prediction,
         probability |-> proba, confidence |-> confidence]

\* dl_app.py: (prediction_proba > 0.5).astype(int)
UIPrediction(prediction_proba) == IF prediction_proba > 50 THEN 1 ELSE 0

----------------------------------------------------------------------------
(* The handlers.  A handler gives the response, the number of calls of     *)
(* model.predict it made and the exception model.predict raised, if any.   *)

health_check ==
    [calls |-> 0, raised |-> "none",
     response |-> [status |-> 200,
                   body |-> [status |-> "healthy", model_loaded |-> TRUE,
                             service |-> "Diabetes Prediction API"]]]

model_info ==
    [calls |-> 0, raised |-> "none",
     response |-> [status |-> 200,
                   body |-> [model_name |-> "Deep Learning Diabetes Predictor",
                             input_features |->
                                 <<"Pregnancies", "Glucose", "BloodPressure",
                                   "SkinThickness", "Insulin", "BMI",
                                   "DiabetesPedigreeFunction", "Age">>,
                             output |-> "Diabetes probability (0-1)",
                             framework |-> "TensorFlow/Keras",
                             threshold |-> 50]]]

\* predict_diabetes calling the model a second time after a failure
predict_diabetes_retry(m, input_data) ==
    LET out == Predict(m, <<Row(input_data)>>)
    IN  IF out.raised # "none"
            THEN [calls |-> 2, raised |-> out.raised,
                  response |-> [status |-> 500,
                                body |-> [detail |-> <<"Prediction error: ",
                                                       ExcMessage(out.raised)>>]]]
            ELSE [calls |-> 1, raised |-> "none",
                  response |-> [status |-> 200,
                                body |-> PredictionOutput(out.proba[1])]]

predict_diabetes(m, input_data) ==
    LET out == Predict(m, <<Row(input_data)>>)
    IN  IF out.raised # "none"
            \* except Exception as e
            THEN [calls |-> 1, raised |-> out.raised,
                  response |-> [status |-> 500,
                                body |-> [detail |-> <<"Prediction error: ",
                                                       ExcMessage(out.raised)>>]]]
            ELSE [calls |-> 1, raised |-> "none",
                  response |-> [status |-> 200,
                                body |-> PredictionOutput(out.proba[1])]]

\* TooLarge with the limit itself refused
TooLarge_ge(patients) == Len(patients) >= MaxPatients

\* predict_batch: len(patients) > 100
TooLarge(patients) == Len(patients) > MaxPatients

\* the try block of predict_batch: what it returns or raises
BatchTry(m, patients) ==
    IF Len(patients) = 0
        THEN [exc |-> "ValueError", msg |-> "Empty patient list",
              calls |-> 0, raised |-> "none", value |-> <<>>]
    ELSE IF TooLarge(patients)
        THEN [exc |-> "ValueError", msg |-> "Maximum 100 patients per request",
              calls |-> 0, raised |-> "none", value |-> <<>>]
    ELSE LET input_df == [k \in 1..Len(patients) |-> Row(patients[k])]
             out == Predict(m, input_df)
         IN  IF out.raised # "none"
                 THEN [exc |-> out.raised, msg |-> ExcMessage(out.raised),
                       calls |-> 1, raised |-> out.raised, value |-> <<>>]
                 ELSE [exc |-> "none", msg |-> "", calls |-> 1, raised |-> "none",
                       value |->
                           [total_patients |-> Len(patients),
                            predictions |->
                                [k \in 1..Len(out.proba) |->
                                    BatchResult(k - 1, out.proba[k])]]]

\* predict_batch: the try block under its two except clauses
predict_batch(m, patients) ==
    LET t == BatchTry(m, patients)
    IN  [calls |-> t.calls, raised |-> t.raised,
         response |->
             IF t.exc = "none" THEN [status |-> 200, body |-> t.value]
             ELSE IF t.exc = "ValueError"
                 THEN [status |-> 400, body |-> [detail |-> <<t.msg>>]]
             ELSE [status |-> 500,
                   body |-> [detail |-> <<"Batch prediction error: ", t.msg>>]]]

----------------------------------------------------------------------------
(* Startup of the API process *)

\* exceptions load_model may raise for a missing file, by library version
LoadErrors == {"FileNotFoundError", "OSError", "ValueError"}

\* LoadModel with a missing file swallowed: the module goes on without a model
LoadModel_none(file, exc) ==
    IF file # NoFile THEN [ok |-> TRUE, handle |-> file, exc |-> "none"]
    ELSE [ok |-> TRUE, handle |-> NoModel, exc |-> "none"]

\* lines `try: model = load_model(...) except FileNotFoundError: raise RuntimeError`
\* of a module body: the handle bound, or the exception that leaves the module
LoadModel(file, exc) ==
    IF file # NoFile THEN [ok |-> TRUE, handle |-> file, exc |-> "none"]
    ELSE IF exc = "FileNotFoundError"
        THEN [ok |-> FALSE, handle |-> NoModel, exc |-> "RuntimeError"]
    ELSE [ok |-> FALSE, handle |-> NoModel, exc |-> exc]

\* int() of the strings the environment may hold
Decimal == ("8000" :> 8000) @@ ("9000" :> 9000)

\* int(os.getenv("PORT", 8000))
Port(e) ==
    IF e.PORT = "unset" THEN [ok |-> TRUE, value |-> DefaultPort]
    ELSE IF e.PORT \in DOMAIN Decimal THEN [ok |-> TRUE, value |-> Decimal[e.PORT]]
    ELSE [ok |-> FALSE, value |-> 0]

\* Reload with "production" as the default of ENVIRONMENT
Reload_off(e) ==
    (IF e.ENVIRONMENT = "unset" THEN "production" ELSE e.ENVIRONMENT)
        = "development"

\* os.getenv("ENVIRONMENT", "development") == "development"
Reload(e) ==
    (IF e.ENVIRONMENT = "unset" THEN "development" ELSE e.ENVIRONMENT)
        = "development"

NoConfig == [read |-> FALSE, port |-> 0, reload |-> FALSE]

\* `python api.py`: the module body runs as __main__ up to the __main__ guard
ImportMain ==
    /\ pc = "main_import"
    /\ \E exc \in LoadErrors :
        LET r == LoadModel(disk, exc)
        IN  IF r.ok
                THEN /\ mainModel' = r.handle
                     /\ loads' = [loads EXCEPT !.main = @ + 1]
                     /\ pc' = "main_run"
                     /\ error' = error
                ELSE /\ pc' = "failed"
                     /\ error' = r.exc
                     /\ UNCHANGED <<mainModel, loads>>
    /\ UNCHANGED <<env, disk, model, config, reqs, ui>>

\* the __main__ block: the arguments of uvicorn.run, read from the environment
Main ==
    /\ pc = "main_run"
    /\ LET port == Port(env)
       IN  IF port.ok
               THEN /\ config' = [read |-> TRUE, port |-> port.value,
                                  reload |-> Reload(env)]
                    /\ pc' = "app_import"
                    /\ error' = error
               ELSE /\ pc' = "failed"
                    /\ error' = "ValueError"
                    /\ config' = config
    /\ UNCHANGED <<env, disk, mainModel, model, loads, reqs, ui>>

\* the server imports "api:app": the module body runs as module api
ImportApp ==
    /\ pc = "app_import"
    /\ \E exc \in LoadErrors :
        LET r == LoadModel(disk, exc)
        IN  IF r.ok
                THEN /\ model' = r.handle
                     /\ loads' = [loads EXCEPT !.api = @ + 1]
                     /\ pc' = "serving"
                     /\ error' = error
                ELSE /\ pc' = "failed"
                     /\ error' = r.exc
                     /\ UNCHANGED <<model, loads>>
    /\ UNCHANGED <<env, disk, mainModel, config, reqs, ui>>

----------------------------------------------------------------------------
(* Requests *)

Idle ==
    [stage |-> "idle", kind |-> "none", input |-> <<>>, calls |-> 0,
     raised |-> "none", response |-> [status |-> 0, body |-> <<>>]]

\* a request arrives on a free connection
Receive(s, inputs) ==
    /\ pc = "serving"
    /\ reqs[s].stage = "idle"
    /\ \E i \in inputs :
        reqs' = [reqs EXCEPT ![s] = [Idle EXCEPT !.stage = "received",
                                                  !.kind = i.kind,
                                                  !.input = i.input]]
    /\ UNCHANGED <<env, disk, pc, error, mainModel, model, loads, config, ui>>

\* the errors the framework finds in the body of a request
BodyErrors(kind, input) ==
    IF kind = "predict" THEN ValidateOne(input)
    ELSE IF kind = "predict_batch" THEN ValidateList(input)
    ELSE {}

\* the framework validates the body against the handler's parameter type and
\* answers 422 itself when it does not conform
Validate(s) ==
    /\ reqs[s].stage = "received"
    /\ LET errs == BodyErrors(reqs[s].kind, reqs[s].input)
       IN  reqs' = [reqs EXCEPT ![s] =
                IF errs = {}
                    THEN [@ EXCEPT !.stage = "validated"]
                    ELSE [@ EXCEPT !.stage = "done",
                                   !.response = [status |-> 422,
                                                 body |-> [detail |-> errs]]]]
    /\ UNCHANGED <<env, disk, pc, error, mainModel, model, loads, config, ui>>

\* a handler runs to completion: it is a coroutine that never awaits
Finish(s, r) ==
    /\ reqs' = [reqs EXCEPT ![s] = [@ EXCEPT !.stage = "done",
                                             !.calls = r.calls,
                                             !.raised = r.raised,
                                             !.response = r.response]]
    /\ UNCHANGED <<env, disk, pc, error, mainModel, model, loads, config, ui>>

HealthCheck(s) ==
    /\ reqs[s].stage = "validated"
    /\ reqs[s].kind = "health"
    /\ Finish(s, health_check)

\* PredictDiabetes reading the record from a buffer all requests share: it
\* holds the record of the request that arrived last
PredictDiabetes_shared(s) ==
    /\ reqs[s].stage = "validated"
    /\ reqs[s].kind = "predict"
    /\ LET others == {t \in DOMAIN reqs :
                         reqs[t].kind = "predict" /\ reqs[t].stage = "validated"}
           t == CHOOSE t \in others : \A u \in others : t >= u
       IN  Finish(s, predict_diabetes(model, reqs[t].input))

PredictDiabetes(s) ==
    /\ reqs[s].stage = "validated"
    /\ reqs[s].kind = "predict"
    /\ Finish(s, predict_diabetes(model, reqs[s].input))

PredictBatch(s) ==
    /\ reqs[s].stage = "validated"
    /\ reqs[s].kind = "predict_batch"
    /\ Finish(s, predict_batch(model, reqs[s].input))

ModelInfo(s) ==
    /\ reqs[s].stage = "validated"
    /\ reqs[s].kind = "model_info"
    /\ Finish(s, model_info)

\* the response is sent and the connection is free again
Close(s) ==
    /\ reqs[s].stage = "done"
    /\ reqs' = [reqs EXCEPT ![s] = Idle]
    /\ UNCHANGED <<env, disk, pc, error, mainModel, model, loads, config, ui>>

----------------------------------------------------------------------------
(* The form: one run of the dl_app.py script *)

NoRun ==
    [state |-> "none", error |-> "none", input |-> Example, proba |-> 0,
     prediction |-> 0, message |-> "none", shown |-> 0]

UIRun(rec, submitted, exc) ==
    /\ ui' =
        IF disk = NoFile
            THEN [NoRun EXCEPT !.state = "exception", !.error = exc]
        ELSE IF ~submitted
            THEN [NoRun EXCEPT !.state = "form"]
        ELSE LET out == Predict(disk, <<Row(rec)>>)
             IN  IF out.raised # "none"
                     THEN [NoRun EXCEPT !.state = "exception",
                                        !.error = out.raised,
                                        !.input = rec]
                     ELSE LET prediction_proba == out.proba[1]
                              prediction == UIPrediction(prediction_proba)
                          IN  [state |-> "result", error |-> "none",
                               input |-> rec,
                               proba |-> prediction_proba,
                               prediction |-> prediction,
                               message |-> IF prediction = 1
                                               THEN "diabetes"
                                               ELSE "no diabetes",
                               shown |-> IF prediction = 1
                                             THEN prediction_proba
                                             ELSE One - prediction_proba]
    /\ UNCHANGED <<env, disk, pc, error, mainModel, model, loads, config, reqs>>

----------------------------------------------------------------------------
(* Inputs *)

Vary(f, v) == [Example EXCEPT ![f] = v]

\* the example with one field at a bound or one step outside it, every field
\* at its minimum, every field at its maximum
Records ==
    {Example, ge, le}
        \cup UNION {{Vary(f, v) :
                        v \in {ge[f] - Step, ge[f], le[f], le[f] + Step}} :
                    f \in Fields}

BatchRecords ==
    {Example, Vary("glucose", ge.glucose), Vary("glucose", le.glucose),
     Vary("bmi", ge.bmi), Vary("bmi", le.bmi), Vary("age", le.age + Step)}

Pad(prefix, n) == prefix \o [k \in 1..(n - Len(prefix)) |-> Example]

\* short batches of every content, and batches at and just over the limit
Batches ==
    UNION {[1..k -> BatchRecords] : k \in 0..MaxPrefix}
        \cup UNION {{Pad(prefix, n) : n \in {MaxPatients, MaxPatients + 1}} :
                    prefix \in {<<>>} \cup {<<r>> : r \in BatchRecords}}

Inputs ==
    [kind : {"health", "model_info"}, input : {<<>>}]
        \cup [kind : {"predict"}, input : Records]
        \cup [kind : {"predict_batch"}, input : Batches]

ConcInputs ==
    [kind : {"health", "model_info"}, input : {<<>>}]
        \cup [kind : {"predict"},
              input : {Example, Vary("bmi", le.bmi), Vary("bmi", le.bmi + Step)}]
        \cup [kind : {"predict_batch"},
              input : {<<>>, <<Example, Vary("bmi", le.bmi)>>,
                       <<Vary("bmi", le.bmi), Example>>}]

UIRecords == {Example, Vary("glucose", ge.glucose), Vary("bmi", le.bmi)}

----------------------------------------------------------------------------
(* Specifications *)

Envs ==
    [PORT : {"unset", "9000", "http"},
     ENVIRONMENT : {"unset", "development", "production"}]

Init ==
    /\ env \in Envs
    /\ disk \in Artifacts \cup {NoFile}
    /\ pc \in {"main_import", "app_import"}
    /\ error = "none"
    /\ mainModel = NoModel
    /\ model = NoModel
    /\ loads = [main |-> 0, api |-> 0]
    /\ config = NoConfig
    /\ reqs = [s \in 1..NReq |-> Idle]
    /\ ui = NoRun

\* a run of the script: with the form untouched, or submitted with the sliders
\* at rec; exc is what load_model raises should the file be missing
UISubmit ==
    \E submitted \in BOOLEAN :
        \E rec \in (IF submitted /\ disk # NoFile THEN UIRecords ELSE {Example}) :
            \E exc \in (IF disk = NoFile THEN LoadErrors ELSE {"none"}) :
                UIRun(rec, submitted, exc)

\* one connection at a time, every input
Next ==
    \/ ImportMain
    \/ Main
    \/ ImportApp
    \/ Receive(1, Inputs)
    \/ Validate(1)
    \/ HealthCheck(1)
    \/ PredictDiabetes(1)
    \/ PredictBatch(1)
    \/ ModelInfo(1)
    \/ Close(1)
    \/ UISubmit

Spec == Init /\ [][Next]_vars

\* NReq connections at a time
InitConc ==
    /\ Init
    /\ env.PORT = "unset"

NextConc ==
    \/ ImportMain
    \/ Main
    \/ ImportApp
    \/ \E s \in 1..NReq :
        \/ Receive(s, ConcInputs)
        \/ Validate(s)
        \/ HealthCheck(s)
        \/ PredictDiabetes(s)
        \/ PredictBatch(s)
        \/ ModelInfo(s)
        \/ Close(s)

SpecConc == InitConc /\ [][NextConc]_vars

----------------------------------------------------------------------------
(* Properties *)

Slots == DOMAIN reqs

\* the inclusive bounds of the data model's table, in fixed point
TableMin ==
    [pregnancies |-> 0, glucose |-> 440000, blood_pressure |-> 240000,
     skin_thickness |-> 70000, insulin |-> 140000, bmi |-> 182000,
     diabetes_pedigree_function |-> 780, age |-> 210000]

TableMax ==
    [pregnancies |-> 170000, glucose |-> 1990000, blood_pressure |-> 1220000,
     skin_thickness |-> 990000, insulin |-> 8460000, bmi |-> 671000,
     diabetes_pedigree_function |-> 24200, age |-> 810000]

OutOfTable(rec) == {f \in Fields : rec[f] < TableMin[f] \/ rec[f] > TableMax[f]}

\* the records of a request body, in order
BodyRecords(r) ==
    IF r.kind = "predict" THEN <<r.input>>
    ELSE IF r.kind = "predict_batch" THEN r.input
    ELSE <<>>

\* C1: a record with every field inside its closed interval, the bounds
\* included, is accepted; a request with a field outside it, in its one record
\* or in any record of a batch, is answered 422 naming exactly the offending
\* fields, never reaches a handler, never calls the model and carries no result.
C1_BoundsEnforced ==
    \A s \in Slots :
        LET r == reqs[s]
            recs == BodyRecords(r)
            bad == {k \in 1..Len(recs) : OutOfTable(recs[k]) # {}}
        IN  (r.stage # "idle" /\ r.kind \in {"predict", "predict_batch"}) =>
                IF bad = {}
                    THEN r.stage = "done" => r.response.status # 422
                    ELSE /\ r.stage \in {"received", "done"}
                         /\ r.stage = "done" =>
                              /\ r.response.status = 422
                              /\ r.calls = 0
                              /\ {e.field : e \in r.response.body.detail}
                                    = UNION {OutOfTable(recs[k]) : k \in bad}
                              /\ r.kind = "predict_batch" =>
                                    {e.row + 1 : e \in r.response.body.detail} = bad

\* C1 witness: a batch whose first record sits on a bound and whose second
\* record is out of bounds was rejected as a whole
C1_Witness ==
    \E s \in Slots :
        /\ reqs[s].stage = "done"
        /\ reqs[s].kind = "predict_batch"
        /\ Len(reqs[s].input) = 2
        /\ reqs[s].input[1].glucose = TableMax.glucose
        /\ reqs[s].input[2].age > TableMax.age
        /\ reqs[s].response.status = 422

\* a batch request that passed validation and whose handler has answered
Handled(r, kind) == r.stage = "done" /\ r.kind = kind /\ r.response.status # 422

\* C2: predict_batch answers an empty list with the 400 "Empty patient list",
\* a list of more than 100 records with the 400 "Maximum 100 patients per
\* request", neither after calling the model; a list of 1 to 100 records passes
\* the size check: the model is called and neither size error is the answer.
C2_BatchSize ==
    \A s \in Slots :
        LET r == reqs[s]
            n == Len(r.input)
        IN  Handled(r, "predict_batch") =>
                /\ n = 0 =>
                      /\ r.response = [status |-> 400,
                                       body |-> [detail |-> <<"Empty patient list">>]]
                      /\ r.calls = 0
                /\ n > 100 =>
                      /\ r.response =
                            [status |-> 400,
                             body |-> [detail |-> <<"Maximum 100 patients per request">>]]
                      /\ r.calls = 0
                /\ (n >= 1 /\ n <= 100) =>
                      /\ r.calls = 1
                      /\ r.response.status # 200 =>
                            r.response.body.detail \notin
                                {<<"Empty patient list">>,
                                 <<"Maximum 100 patients per request">>}

\* C2 witness: a batch of exactly 100 records was answered 200
C2_Witness ==
    \E s \in Slots :
        /\ Handled(reqs[s], "predict_batch")
        /\ Len(reqs[s].input) = 100
        /\ reqs[s].response.status = 200
        /\ reqs[s].response.body.total_patients = 100

\* C3: an exception raised by model.predict is answered with status 500 and a
\* detail that carries the exception's message, by /predict and /predict-batch
C3_ModelErrorIs5xx ==
    \A s \in Slots :
        LET r == reqs[s]
        IN  (r.stage = "done" /\ r.raised # "none") =>
                /\ r.response.status = 500
                /\ r.response.body.detail[Len(r.response.body.detail)]
                      = ExcMessage(r.raised)

\* the [prediction, probability, confidence] results of an answered request
Results(r) ==
    IF r.stage = "done" /\ r.response.status = 200 /\ r.kind = "predict"
        THEN {r.response.body}
    ELSE IF r.stage = "done" /\ r.response.status = 200 /\ r.kind = "predict_batch"
        THEN {[prediction |-> x.prediction, probability |-> x.probability,
               confidence |-> x.confidence] :
                  x \in {r.response.body.predictions[k] :
                            k \in DOMAIN r.response.body.predictions}}
    ELSE {}

AllResults == UNION {Results(reqs[s]) : s \in Slots}

\* C4: every result of /predict, every row of /predict-batch and the form
\* label 1 exactly when the probability is above 0.5, and 0 otherwise
C4_Threshold ==
    /\ \A x \in AllResults :
          /\ x.prediction \in {0, 1}
          /\ x.prediction = 1 <=> x.probability > 50
    /\ ui.state = "result" =>
          /\ ui.prediction \in {0, 1}
          /\ ui.prediction = 1 <=> ui.proba > 50
          /\ ui.message = "diabetes" <=> ui.proba > 50

\* C4 witness: /predict answered a probability of exactly 0.5 with label 0
C4_Witness ==
    \E s \in Slots :
        /\ reqs[s].kind = "predict"
        /\ \E x \in Results(reqs[s]) : x.probability = 50 /\ x.prediction = 0

ConfidenceProb(p) == IF p >= 100 - p THEN p ELSE 100 - p

Rank(confidence) ==
    IF confidence = "Low" THEN 0 ELSE IF confidence = "Medium" THEN 1 ELSE 2

\* C5: with confidence_prob = max(p, 1-p), confidence is High from 0.8 on,
\* Medium from 0.6 to below 0.8 and Low below 0.6, for /predict and every row
\* of /predict-batch; so it never decreases as confidence_prob grows, and p
\* and 1-p get the same confidence.
C5_Confidence ==
    /\ \A x \in AllResults :
          LET cp == ConfidenceProb(x.probability)
          IN  /\ x.confidence \in {"Low", "Medium", "High"}
              /\ x.confidence = "High" <=> cp >= 80
              /\ x.confidence = "Medium" <=> (cp >= 60 /\ cp < 80)
              /\ x.confidence = "Low" <=> cp < 60
    /\ \A x, y \in AllResults :
          /\ ConfidenceProb(x.probability) <= ConfidenceProb(y.probability)
                => Rank(x.confidence) <= Rank(y.confidence)
          /\ x.probability = 100 - y.probability => x.confidence = y.confidence

\* C5 witness: one batch answered 0.4 and 0.6, both Medium
C5_Witness ==
    \E s \in Slots :
        /\ reqs[s].kind = "predict_batch"
        /\ \E x, y \in Results(reqs[s]) :
              /\ x.probability = 40 /\ x.confidence = "Medium"
              /\ y.probability = 60 /\ y.confidence = "Medium"

\* C6: an answered batch of N records has total_patients = N and N
\* predictions; the k-th carries patient_id = k and is derived from the
\* probability the model gives the k-th record
C6_BatchOrder ==
    \A s \in Slots :
        LET r == reqs[s]
        IN  (Handled(r, "predict_batch") /\ r.response.status = 200) =>
                LET n == Len(r.input)
                    out == r.response.body
                IN  /\ n >= 1 /\ n <= 100
                    /\ out.total_patients = n
                    /\ Len(out.predictions) = n
                    /\ \A k \in 1..n :
                          LET p == Proba(model, Row(r.input[k]))
                          IN  /\ out.predictions[k].patient_id = k
                              /\ out.predictions[k].probability = p
                              /\ out.predictions[k].prediction
                                    = (IF p > 50 THEN 1 ELSE 0)
                              /\ Rank(out.predictions[k].confidence)
                                    = (IF ConfidenceProb(p) >= 80 THEN 2
                                       ELSE IF ConfidenceProb(p) >= 60 THEN 1
                                       ELSE 0)

\* C6 witness: a batch of two records with different probabilities was
\* answered in input order
C6_Witness ==
    \E s \in Slots :
        LET r == reqs[s]
        IN  /\ Handled(r, "predict_batch")
            /\ r.response.status = 200
            /\ Len(r.input) = 2
            /\ r.response.body.predictions[1].probability
                  < r.response.body.predictions[2].probability
            /\ r.response.body.predictions[2].patient_id = 2

\* C7 as stated: the port is 8000 when PORT is unset, and reload is off unless
\* the environment enables it, so it is off when ENVIRONMENT is unset
C7_ReloadOffByDefault ==
    config.read =>
        /\ env.PORT = "unset" => config.port = 8000
        /\ env.ENVIRONMENT = "unset" => ~config.reload

\* C7 amended: the port is 8000 when PORT is unset and the number PORT holds
\* otherwise; reload is on exactly when ENVIRONMENT is unset or is
\* "development", so it is on when no environment variable is set
C7_ReloadOnByDefault ==
    config.read =>
        /\ env.PORT = "unset" => config.port = 8000
        /\ env.PORT = "9000" => config.port = 9000
        /\ config.reload <=> env.ENVIRONMENT \in {"unset", "development"}

\* C7 witness: with no environment variable set the server was started on
\* port 8000 with reload on
C7_Witness ==
    /\ env = [PORT |-> "unset", ENVIRONMENT |-> "unset"]
    /\ config = [read |-> TRUE, port |-> 8000, reload |-> TRUE]
    /\ pc = "serving"

\* C8: with the artifact missing the process ends at its first import with an
\* exception, no request is ever taken and the form never shows; every request
\* taken sees the module's model bound once, to the artifact, before it
C8_ModelLoaded ==
    /\ disk = NoFile =>
          /\ pc \in {"main_import", "app_import", "failed"}
          /\ pc = "failed" => error \in {"RuntimeError", "OSError", "ValueError"}
          /\ \A s \in Slots : reqs[s].stage = "idle"
          /\ ui.state \in {"none", "exception"}
    /\ \A s \in Slots :
          reqs[s].stage # "idle" =>
              /\ pc = "serving"
              /\ disk # NoFile
              /\ model = disk
              /\ model \in Artifacts
              /\ loads.api = 1

\* C8 witness: the artifact is missing and the process has failed with the
\* RuntimeError of the module body
C8_Witness ==
    /\ disk = NoFile
    /\ pc = "failed"
    /\ error = "RuntimeError"

\* C9: no request calls the model twice; an accepted /predict and an accepted
\* batch within the size limits call it once, whatever the number of records;
\* a request the model failed ends with an error after that one call
C9_OneCall ==
    \A s \in Slots :
        LET r == reqs[s]
        IN  /\ r.calls <= 1
            /\ Handled(r, "predict") => r.calls = 1
            /\ (Handled(r, "predict_batch") /\ Len(r.input) >= 1
                    /\ Len(r.input) <= 100) => r.calls = 1
            /\ (r.stage = "done" /\ r.kind \in {"health", "model_info"})
                  => r.calls = 0
            /\ (r.stage = "done" /\ r.raised # "none") =>
                  /\ r.calls = 1
                  /\ r.response.status >= 400

\* C9 witness: a batch of the largest size was answered after one call
C9_Witness ==
    \E s \in Slots :
        /\ Handled(reqs[s], "predict_batch")
        /\ Len(reqs[s].input) = 100
        /\ reqs[s].response.status = 200
        /\ reqs[s].calls = 1

\* the answer to a request on a server that handles nothing else
Alone(m, kind, input) ==
    IF BodyErrors(kind, input) # {}
        THEN [status |-> 422, body |-> [detail |-> BodyErrors(kind, input)]]
    ELSE IF kind = "health" THEN health_check.response
    ELSE IF kind = "model_info" THEN model_info.response
    ELSE IF kind = "predict" THEN predict_diabetes(m, input).response
    ELSE predict_batch(m, input).response

\* C10: however requests interleave, a step of a request changes nothing but
\* that request: the model, the configuration and the other requests stay as
\* they are; every answer is the one the request gets alone, and two requests
\* of the same kind with the same input are answered alike
C10_Independent ==
    /\ [](\A s \in Slots :
            reqs[s].stage = "done" =>
                /\ reqs[s].response = Alone(disk, reqs[s].kind, reqs[s].input)
                /\ \A t \in Slots :
                      (reqs[t].stage = "done" /\ reqs[t].kind = reqs[s].kind
                          /\ reqs[t].input = reqs[s].input)
                        => reqs[t].response = reqs[s].response)
    /\ [][pc = "serving" =>
            /\ <<model, mainModel, disk, loads, config, env, pc>>'
                  = <<model, mainModel, disk, loads, config, env, pc>>
            /\ Cardinality({s \in Slots : reqs'[s] # reqs[s]}) <= 1]_vars

\* C10 witness: two requests for the same record, answered while both were
\* open, got the same successful answer
C10_Witness ==
    /\ NReq >= 2
    /\ reqs[1].stage = "done" /\ reqs[2].stage = "done"
    /\ reqs[1].kind = "predict" /\ reqs[2].kind = "predict"
    /\ reqs[1].input = reqs[2].input
    /\ reqs[1].response.status = 200
    /\ reqs[1].response = reqs[2].response

====
